---- MODULE Spec2Model ----
(***************************************************************************)
(* Model of scripts/export_prices_rds.py: one export run over a universe  *)
(* of securities.  Instants are UTC, counted in ticks since               *)
(* 2024-11-02 00:00 UTC, earlier instants being negative; New York is on  *)
(* daylight saving time from 2024-03-10 07:00 UTC to 2024-11-03 06:00 UTC *)
(* and again from 2025-03-09 07:00 UTC.                                   *)
(***************************************************************************)
EXTENDS Integers, Sequences, FiniteSets, TLC

\* ---------------------------------------------------------------- bounds
TicksPerMinute == 2      \* resolution of an instant: ticks per minute
MaxRows == 2             \* rows of the universe membership query
MaxBars == 2             \* rows of the PriceBar table, and of the FlatBar table
MaxGapBars == 3          \* days with a bar of one security, in the runs over gaps

\* --------------------------------------------------- calendar arithmetic
EdtOffsetMinutes == 240
EstOffsetMinutes == 300
DstStart2024Minute == -340860    \* 2024-03-10 07:00 UTC
DstEndMinute == 1800             \* 2024-11-03 06:00 UTC
DstStart2025Minute == 183300     \* 2025-03-09 07:00 UTC
TimestampMaxMinute == 124881107  \* 2262-04-11 23:47 UTC

NaT == -1

\* datetime.time(h, m)
time(h, m) == [hour |-> h, minute |-> m]

\* the table with "ALL" spanning the whole day
SESSION_HOURS_WHOLE_DAY ==
    [US   |-> <<time(9, 30), time(15, 59)>>,
     EU   |-> <<time(2, 0),  time(8, 59)>>,
     EUUS |-> <<time(2, 0),  time(11, 59)>>,
     ALL  |-> <<time(0, 0),  time(23, 59)>>]

\* the table with "US" opening at 09:00
SESSION_HOURS_US_FROM_NINE ==
    [US   |-> <<time(9, 0),  time(15, 59)>>,
     EU   |-> <<time(2, 0),  time(8, 59)>>,
     EUUS |-> <<time(2, 0),  time(11, 59)>>,
     ALL  |-> <<time(2, 0),  time(15, 59)>>]

SESSION_HOURS_NY ==
    [US   |-> <<time(9, 30), time(15, 59)>>,
     EU   |-> <<time(2, 0),  time(8, 59)>>,
     EUUS |-> <<time(2, 0),  time(11, 59)>>,
     ALL  |-> <<time(2, 0),  time(15, 59)>>]

SessionTags == {"US", "EU", "EUUS", "ALL"}

\* pd.Timestamp.max.tz_localize("UTC")
TimestampMax == TimestampMaxMinute * TicksPerMinute

\* ts.dt.tz_convert("America/New_York"): the wall clock, in ticks, of instant t
TzConvertNY(t) ==
    IF t < DstStart2024Minute * TicksPerMinute
    THEN t - EstOffsetMinutes * TicksPerMinute
    ELSE IF t < DstEndMinute * TicksPerMinute
    THEN t - EdtOffsetMinutes * TicksPerMinute
    ELSE IF t < DstStart2025Minute * TicksPerMinute
    THEN t - EstOffsetMinutes * TicksPerMinute
    ELSE t - EdtOffsetMinutes * TicksPerMinute

DtHour(t) == ((TzConvertNY(t) \div TicksPerMinute) \div 60) % 24
DtMinute(t) == (TzConvertNY(t) \div TicksPerMinute) % 60
DtDay(t) == (TzConvertNY(t) \div TicksPerMinute) \div (24 * 60)

\* ts.dt.hour * 60 + ts.dt.minute
MinuteOfDay(t) == DtHour(t) * 60 + DtMinute(t)

\* strftime(FMT) with FMT = "%Y-%m-%d %H:%M": the text is the local date,
\* hour and minute; seconds and the UTC offset are not printed.
Strftime(t) == <<DtDay(t), DtHour(t), DtMinute(t)>>

\* order of two formatted timestamps as text (fixed-width fields)
StrLess(a, b) ==
    \/ a[1] < b[1]
    \/ a[1] = b[1] /\ a[2] < b[2]
    \/ a[1] = b[1] /\ a[2] = b[2] /\ a[3] < b[3]

SessionLo(tag) ==
    SESSION_HOURS_NY[tag][1].hour * 60 + SESSION_HOURS_NY[tag][1].minute
SessionHi(tag) ==
    SESSION_HOURS_NY[tag][2].hour * 60 + SESSION_HOURS_NY[tag][2].minute

\* the mask with the upper bound of the window left out
InSessionNoUpper(tag, t) == SessionLo(tag) <= MinuteOfDay(t)

\* mask = minutes.between(lo, hi)
InSession(tag, t) ==
    /\ SessionLo(tag) <= MinuteOfDay(t)
    /\ MinuteOfDay(t) <= SessionHi(tag)

\* ------------------------------------------------------------- sequences
RECURSIVE SortedByTime(_)
\* ORDER BY BarTimeUtc over a set of rows
SortedByTime(S) ==
    IF S = {} THEN <<>>
    ELSE LET r == CHOOSE x \in S : \A y \in S : x.timestamp <= y.timestamp
         IN <<r>> \o SortedByTime(S \ {r})

RECURSIVE Sorted(_)
\* sorted(all_ts)
Sorted(S) ==
    IF S = {} THEN <<>>
    ELSE LET m == CHOOSE x \in S : \A y \in S : x <= y
         IN <<m>> \o Sorted(S \ {m})

Range(s) == {s[j] : j \in 1..Len(s)}

\* ------------------------------------------------------- database reads
\* read_price_bars: the rows of one security in time order, restricted to
\* the session window of New York wall-clock minutes
read_price_bars(table, security_id, tag) ==
    LET rows == {[timestamp |-> r.BarTimeUtc, close |-> r.Close] :
                    r \in {x \in table : x.SecurityId = security_id}}
        df == SortedByTime(rows)
        Keep(b) == InSession(tag, b.timestamp)
    IN SelectSeq(df, Keep)

\* read_flat_bars: the same query and filter over the FlatBar table
read_flat_bars(table, security_id, tag) ==
    LET rows == {[timestamp |-> r.BarTimeUtc, close |-> r.Close] :
                    r \in {x \in table : x.SecurityId = security_id}}
        df == SortedByTime(rows)
        Keep(b) == InSession(tag, b.timestamp)
    IN SelectSeq(df, Keep)

\* frame(sec_id, ser): rows (securityId, formatted timestamp, price)
frame(sec_id, ser) ==
    [j \in 1..Len(ser) |-> <<sec_id, Strftime(ser[j].timestamp), ser[j].close>>]

\* ------------------------------------------------------- membership load
\* end = pd.to_datetime(..., errors="coerce"); a missing end becomes the
\* greatest timestamp
ResolveEnd(to) == IF to = NaT THEN TimestampMax ELSE to

RECURSIVE Unique(_)
\* members_df["SecurityId"].unique().tolist(): first appearances, in order
Unique(s) ==
    IF s = <<>> THEN <<>>
    ELSE LET init == Unique(SubSeq(s, 1, Len(s) - 1))
             last == s[Len(s)]
         IN IF last \in Range(init) THEN init ELSE Append(init, last)

\* dict.setdefault(key, []).append(v) on a dict kept in insertion order
SetDefaultAppend(d, key, v) ==
    IF \E j \in 1..Len(d) : d[j].key = key
    THEN [j \in 1..Len(d) |->
            IF d[j].key = key THEN [d[j] EXCEPT !.val = Append(@, v)] ELSE d[j]]
    ELSE Append(d, [key |-> key, val |-> <<v>>])

RECURSIVE LoadMembership(_)
\* the loop over members_df.itertuples()
LoadMembership(rows) ==
    IF rows = <<>> THEN <<>>
    ELSE LET row == rows[Len(rows)]
         IN SetDefaultAppend(LoadMembership(SubSeq(rows, 1, Len(rows) - 1)),
                             row.SecurityId,
                             <<row.EffectiveFromUtc, ResolveEnd(row.EffectiveToUtc)>>)

\* get_subuniverse_data: the sub-universe ids and their member rows
SubUniverseIds == <<1>>
SubUniverseMembers(ids) == [j \in 1..Len(ids) |-> <<1, ids[j]>>]

\* ---------------------------------------------------- membership writer
\* the comparison with the end bound excluded
WithinEndExcluded(iv, t) == iv[1] <= t /\ t < iv[2]

\* start <= t <= end
Within(iv, t) == iv[1] <= t /\ t <= iv[2]

RECURSIVE ScanIntervals(_, _, _, _)
\* the loop over one security's intervals: one line at the first interval
\* that holds t, then break
ScanIntervals(intervals, t, real_sid, t_str) ==
    IF intervals = <<>> THEN <<>>
    ELSE IF Within(Head(intervals), t) THEN << <<real_sid, t_str>> >>
    ELSE ScanIntervals(Tail(intervals), t, real_sid, t_str)

RECURSIVE MembershipLinesReversed(_, _, _)
\* the loop over the securities taken from the last key to the first
MembershipLinesReversed(d, t, t_str) ==
    IF d = <<>> THEN <<>>
    ELSE MembershipLinesReversed(Tail(d), t, t_str)
            \o ScanIntervals(Head(d).val, t, Head(d).key, t_str)

RECURSIVE MembershipLines(_, _, _)
\* the loop over membership_by_real_sid.items() for one timestamp
MembershipLines(d, t, t_str) ==
    IF d = <<>> THEN <<>>
    ELSE ScanIntervals(Head(d).val, t, Head(d).key, t_str)
            \o MembershipLines(Tail(d), t, t_str)

\* ---------------------------------------------------------------- inputs
SecurityIds == {1, 2}
FileNames == {"A", "B", "C", "D", "E", "F", "G", "H", "I"}

\* a row left in an output file by an earlier run
StaleRow == <<0, 0, 0, 0>>

\* New York wall-clock minutes of day at the edges of each session window:
\* one minute before the window, its first minute, its last, one after
EdgeMinutes ==
    [US   |-> <<569, 570, 959, 960>>,
     EU   |-> <<119, 120, 539, 540>>,
     EUUS |-> <<119, 120, 719, 720>>,
     ALL  |-> <<119, 120, 959, 960>>]

\* the UTC instant of a New York wall-clock day, minute of day and tick
Utc(day, minute, tick) ==
    LET wall == day * 24 * 60 + minute
    IN IF wall + EstOffsetMinutes < DstStart2024Minute
       THEN (wall + EstOffsetMinutes) * TicksPerMinute + tick
       ELSE IF wall + EdtOffsetMinutes < DstEndMinute
       THEN (wall + EdtOffsetMinutes) * TicksPerMinute + tick
       ELSE IF wall + EstOffsetMinutes < DstStart2025Minute
       THEN (wall + EstOffsetMinutes) * TicksPerMinute + tick
       ELSE (wall + EdtOffsetMinutes) * TicksPerMinute + tick

\* instants of the bars offered to a run under a session tag
BarTimes(tag) ==
    LET e == EdgeMinutes[tag]
    IN << Utc(0, e[1], 0), Utc(0, e[2], 0), Utc(0, e[2], 1),
          Utc(1, e[3], 1), Utc(1, e[4], 0) >>

\* rows of Intraday.mkt.PriceBar a run may find: security 1 has bars at
\* every offered instant, security 2 on the first minute of the window
PriceRows(tag) ==
    {[SecurityId |-> p[1], BarTimeUtc |-> BarTimes(tag)[p[2]],
      Close |-> 100 + p[1] * 10 + p[2]] :
        p \in ({1} \X {1, 2, 3, 4, 5}) \cup ({2} \X {2})}

\* rows of Intraday.mkt.FlatBar a run may find
FlatRows(tag) ==
    {[SecurityId |-> p[1], BarTimeUtc |-> BarTimes(tag)[p[2]],
      Close |-> 200 + p[1] * 10 + p[2]] :
        p \in ({1} \X {2, 5}) \cup ({2} \X {2})}

\* rows of the membership query: the intervals
\* [first bar of the window, the bar one tick later], for either security,
\* and [that later bar, no end], for security 1; the two overlap in one
\* instant
MemberRows(tag) ==
    {[SecurityId |-> p[1], EffectiveFromUtc |-> p[2][1], EffectiveToUtc |-> p[2][2]] :
        p \in ({1, 2} \X {<<BarTimes(tag)[2], BarTimes(tag)[3]>>})
                \cup ({1} \X {<<BarTimes(tag)[3], NaT>>})}

\* the query results of at most n rows, no row twice
SeqsUpTo(S, n) ==
    {q \in UNION {[1..m -> S] : m \in 0..n} :
        \A i, j \in 1..Len(q) : i # j => q[i] # q[j]}
SubsetsUpTo(S, n) == {T \in SUBSET S : Cardinality(T) <= n}

\* ----------------------------------------------------------- gap auditor
\* .dt.normalize() of a New York timestamp: the instant of local midnight
Normalize(t) == Utc(DtDay(t), 0, 0)

\* .dt.days of the difference of two instants: its whole days of 24 hours
TimedeltaDays(a, b) == (b - a) \div (24 * 60 * TicksPerMinute)

\* diffs > limit_days
OverLimit(d, limit_days) == d > limit_days

\* check_long_gaps(ts, limit_days): the warnings it prints, one for each
\* pair of consecutive distinct local midnights more than limit_days whole
\* days apart: (start date, end date, days)
check_long_gaps(ts, limit_days) ==
    LET days == Sorted({Normalize(ts[j]) : j \in 1..Len(ts)})
        diffs == [i \in 2..Len(days) |-> TimedeltaDays(days[i - 1], days[i])]
        all == [i \in 1..(Len(days) - 1) |->
                   <<"gap", DtDay(days[i]), DtDay(days[i + 1]), diffs[i + 1]>>]
        IsGap(w) == OverLimit(w[4], limit_days)
    IN IF days = <<>> THEN <<>> ELSE SelectSeq(all, IsGap)

\* ----------------------------------------------------------------- state
VARIABLES
    session,                 \* args.session
    members_df,              \* rows of the universe membership query
    PriceBar, FlatBar,       \* the rows the two bar queries select from
    pc,                      \* position of the script
    universe_ids,
    membership_by_real_sid,
    existing,                \* output files that exist
    files,                   \* lines of each output file
    all_ts,
    first_G,
    idx,                     \* position of the loop over universe_ids
    df_raw, df_flat,
    ts_sorted, ts_fmt,
    k,                       \* position of the loop over ts_sorted
    printed                  \* the lines printed so far

inputs == <<session, members_df, PriceBar, FlatBar>>
vars == <<session, members_df, PriceBar, FlatBar, pc, universe_ids,
          membership_by_real_sid, existing, files, all_ts, first_G, idx,
          df_raw, df_flat, ts_sorted, ts_fmt, k, printed>>

InitRun ==
    /\ pc = "start"
    /\ universe_ids = <<>>
    /\ membership_by_real_sid = <<>>
    /\ existing \in {{}, FileNames}
    /\ files = [f \in FileNames |-> IF f \in existing THEN <<StaleRow>> ELSE <<>>]
    /\ all_ts = {}
    /\ first_G = TRUE
    /\ idx = 1
    /\ df_raw = <<>>
    /\ df_flat = <<>>
    /\ ts_sorted = <<>>
    /\ ts_fmt = <<>>
    /\ k = 1
    /\ printed = <<>>

Init ==
    /\ session \in SessionTags
    /\ members_df \in SeqsUpTo(MemberRows(session), MaxRows)
    /\ PriceBar \in SubsetsUpTo(PriceRows(session), MaxBars)
    /\ FlatBar \in SubsetsUpTo(FlatRows(session), MaxBars)
    /\ InitRun

\* ------------------------------------------- the end-to-end scenario
\* bars of security s on the hour, at the hours of H New York time, on each
\* of the days 2024-11-02, 2024-11-03 and 2024-11-04
HourlyRows(s, H, base) ==
    {[SecurityId |-> s, BarTimeUtc |-> Utc(d, h * 60, 0), Close |-> base + h] :
        d \in 0..2, h \in H}

ScenarioMember(s) ==
    [SecurityId |-> s, EffectiveFromUtc |-> Utc(0, 9 * 60, 0), EffectiveToUtc |-> NaT]

\* runs around the scenario: security 1 with hourly bars at some of the
\* hours 09:00, 10:00, 11:00, security 2 with no bar or a single one
InitE2E ==
    /\ session \in SessionTags
    /\ members_df \in {<<>>, <<ScenarioMember(1)>>,
                       <<ScenarioMember(1), ScenarioMember(2)>>,
                       <<ScenarioMember(2), ScenarioMember(1)>>}
    /\ \E H \in SUBSET {9, 10, 11} : \E H2 \in {{}, {10}} :
          PriceBar = HourlyRows(1, H, 100) \cup HourlyRows(2, H2, 100)
    /\ \E H \in {{}, {9, 10, 11}} : \E H2 \in {{}, {10}} :
          FlatBar = HourlyRows(1, H, 200) \cup HourlyRows(2, H2, 200)
    /\ InitRun

\* ------------------------------------------------ the runs over gaps
\* New York calendar days, counted from 2024-11-02: 2024-01-01, 2024-01-02,
\* 2024-01-10, 2024-01-15, 2025-03-05, 2025-03-11 and 2025-03-12; the clocks
\* go forward on 2025-03-09
GapDays == {-306, -305, -297, -292, 123, 129, 130}

\* one bar of security s on each of the days D, on the first minute of the
\* session window
DailyRows(s, D, tag, close) ==
    {[SecurityId |-> s, BarTimeUtc |-> Utc(d, EdgeMinutes[tag][2], 0),
      Close |-> close] : d \in D}

\* runs over bars that lie days apart: security 1 with bars on the days of
\* one of the sets in Ds, security 2 with no bar or one; flat bars for
\* neither, for security 1, or for both
GapRuns(Ds) ==
    /\ session \in SessionTags
    /\ members_df \in {<<>>, <<ScenarioMember(1)>>,
                       <<ScenarioMember(1), ScenarioMember(2)>>,
                       <<ScenarioMember(2), ScenarioMember(1)>>}
    /\ \E D \in Ds : \E D2 \in {{}, {123}} :
          PriceBar = DailyRows(1, D, session, 100) \cup DailyRows(2, D2, session, 100)
    /\ \E D \in {{}, {123}} : \E D2 \in {{}, D} :
          FlatBar = DailyRows(1, D, session, 200) \cup DailyRows(2, D2, session, 200)
    /\ InitRun

\* bars of security 1 on up to MaxGapBars of the days
InitGaps == GapRuns(SubsetsUpTo(GapDays, MaxGapBars))

\* bars of security 1 on any of the days 2024-01-01, 2024-01-10, 2025-03-05
\* and 2025-03-12
InitLongGaps == GapRuns(SUBSET {-306, -297, 123, 130})

\* ----------------------------------------------------------- file writes
\* to_csv(path, mode="a"): append, creating the file
AppendTo(f, rows) ==
    /\ files' = [files EXCEPT ![f] = @ \o rows]
    /\ existing' = existing \cup {f}

\* to_csv(path) and open("w"): create or truncate, then write
WriteTo(f, rows) ==
    /\ files' = [files EXCEPT ![f] = rows]
    /\ existing' = existing \cup {f}

\* --------------------------------------------------------------- actions
\* lines 222-230
LoadUniverse ==
    /\ pc = "start"
    /\ universe_ids' = Unique([j \in 1..Len(members_df) |-> members_df[j].SecurityId])
    /\ membership_by_real_sid' = LoadMembership(members_df)
    /\ pc' = "cleanup"
    /\ UNCHANGED <<inputs, printed, existing, files, all_ts, first_G, idx, df_raw,
                   df_flat, ts_sorted, ts_fmt, k>>

\* the cleanup leaving the files of an earlier run in place
CleanupKeepsFiles ==
    /\ pc = "cleanup"
    /\ pc' = "check"
    /\ UNCHANGED <<inputs, printed, universe_ids, membership_by_real_sid, existing,
                   files, all_ts, first_G, idx, df_raw, df_flat, ts_sorted,
                   ts_fmt, k>>

\* lines 233-238: every output file left by an earlier run is removed
Cleanup ==
    /\ pc = "cleanup"
    /\ existing' = {}
    /\ files' = [f \in FileNames |-> <<>>]
    /\ pc' = "check"
    /\ UNCHANGED <<inputs, printed, universe_ids, membership_by_real_sid, all_ts,
                   first_G, idx, df_raw, df_flat, ts_sorted, ts_fmt, k>>

\* the check of the universe left out
NoSecuritiesUnchecked(ids) == FALSE

\* if not universe_ids
NoSecurities(ids) == ids = <<>>

\* lines 240-241: sys.exit("No securities selected")
ExitNoSecurities ==
    /\ pc = "check"
    /\ NoSecurities(universe_ids)
    /\ pc' = "exit"
    /\ UNCHANGED <<inputs, printed, universe_ids, membership_by_real_sid, existing,
                   files, all_ts, first_G, idx, df_raw, df_flat, ts_sorted,
                   ts_fmt, k>>

\* lines 243-244: the sub-universe ids go to E
WriteSubUniverseIds ==
    /\ pc = "check"
    /\ ~NoSecurities(universe_ids)
    /\ WriteTo("E", [j \in 1..Len(SubUniverseIds) |-> <<SubUniverseIds[j]>>])
    /\ pc' = "subMembers"
    /\ UNCHANGED <<inputs, printed, universe_ids, membership_by_real_sid, all_ts,
                   first_G, idx, df_raw, df_flat, ts_sorted, ts_fmt, k>>

\* lines 245-248: the sub-universe members go to F; the loop state is set
WriteSubUniverseMembers ==
    /\ pc = "subMembers"
    /\ WriteTo("F", SubUniverseMembers(universe_ids))
    /\ all_ts' = {}
    /\ first_G' = TRUE
    /\ idx' = 1
    /\ pc' = "loop"
    /\ UNCHANGED <<inputs, printed, universe_ids, membership_by_real_sid, df_raw,
                   df_flat, ts_sorted, ts_fmt, k>>

\* df.empty
Empty(df) == df = <<>>

\* raw.index, the timestamps registered by all_ts.update
Index(df) == {df[j].timestamp : j \in 1..Len(df)}

\* the raw read ending the run at a security without raw bars
ReadRawAbortOnEmpty ==
    /\ pc = "loop"
    /\ idx <= Len(universe_ids)
    /\ df_raw' = read_price_bars(PriceBar, universe_ids[idx], session)
    /\ idx' = idx
    /\ pc' = IF Empty(df_raw') THEN "exit" ELSE "flat"
    /\ printed' = printed
          \o << <<"visit", universe_ids[idx]>> >>
          \o check_long_gaps([j \in 1..Len(df_raw') |-> df_raw'[j].timestamp], 5)
    /\ UNCHANGED <<inputs, universe_ids, membership_by_real_sid, existing,
                   files, all_ts, first_G, df_flat, ts_sorted, ts_fmt, k>>

\* lines 250-260: the next security's raw bars are read; no bars, next security
ReadRaw ==
    /\ pc = "loop"
    /\ idx <= Len(universe_ids)
    /\ df_raw' = read_price_bars(PriceBar, universe_ids[idx], session)
    /\ IF Empty(df_raw')
       THEN idx' = idx + 1 /\ pc' = "loop"
       ELSE idx' = idx /\ pc' = "flat"
    /\ printed' = printed
          \o << <<"visit", universe_ids[idx]>> >>
          \o check_long_gaps([j \in 1..Len(df_raw') |-> df_raw'[j].timestamp], 5)
          \o (IF Empty(df_raw')
              THEN << <<"skip", universe_ids[idx], "no raw bars">> >>
              ELSE <<>>)
    /\ UNCHANGED <<inputs, universe_ids, membership_by_real_sid, existing,
                   files, all_ts, first_G, df_flat, ts_sorted, ts_fmt, k>>

\* the flat read with the skip of an empty frame left out
ReadFlatNoSkip ==
    /\ pc = "flat"
    /\ df_flat' = read_flat_bars(FlatBar, universe_ids[idx], session)
    /\ idx' = idx
    /\ pc' = "register"
    /\ UNCHANGED <<inputs, printed, universe_ids, membership_by_real_sid, existing,
                   files, all_ts, first_G, df_raw, ts_sorted, ts_fmt, k>>

\* lines 262-267: its flat bars are read; no bars, next security
ReadFlat ==
    /\ pc = "flat"
    /\ df_flat' = read_flat_bars(FlatBar, universe_ids[idx], session)
    /\ IF Empty(df_flat')
       THEN idx' = idx + 1 /\ pc' = "loop"
       ELSE idx' = idx /\ pc' = "register"
    /\ printed' = printed
          \o (IF Empty(df_flat')
              THEN << <<"skip", universe_ids[idx], "no flat bars">> >>
              ELSE <<>>)
    /\ UNCHANGED <<inputs, universe_ids, membership_by_real_sid, existing,
                   files, all_ts, first_G, df_raw, ts_sorted, ts_fmt, k>>

\* the registration taking the timestamps of the flat frame
RegisterFlatTimestamps ==
    /\ pc = "register"
    /\ all_ts' = all_ts \cup Index(df_flat)
    /\ pc' = "writeA"
    /\ UNCHANGED <<inputs, printed, universe_ids, membership_by_real_sid, existing,
                   files, first_G, idx, df_raw, df_flat, ts_sorted, ts_fmt, k>>

\* lines 269-271
RegisterTimestamps ==
    /\ pc = "register"
    /\ all_ts' = all_ts \cup Index(df_raw)
    /\ pc' = "writeA"
    /\ UNCHANGED <<inputs, printed, universe_ids, membership_by_real_sid, existing,
                   files, first_G, idx, df_raw, df_flat, ts_sorted, ts_fmt, k>>

\* lines 273-275
WriteFlat ==
    /\ pc = "writeA"
    /\ AppendTo("A", frame(universe_ids[idx], df_flat))
    /\ pc' = "writeH"
    /\ UNCHANGED <<inputs, printed, universe_ids, membership_by_real_sid, all_ts,
                   first_G, idx, df_raw, df_flat, ts_sorted, ts_fmt, k>>

\* lines 277-279
WriteRawH ==
    /\ pc = "writeH"
    /\ AppendTo("H", frame(universe_ids[idx], df_raw))
    /\ pc' = "writeI"
    /\ UNCHANGED <<inputs, printed, universe_ids, membership_by_real_sid, all_ts,
                   first_G, idx, df_raw, df_flat, ts_sorted, ts_fmt, k>>

\* the second raw write taking the flat frame
WriteRawIFlat ==
    /\ pc = "writeI"
    /\ AppendTo("I", frame(universe_ids[idx], df_flat))
    /\ pc' = "writeG"
    /\ UNCHANGED <<inputs, printed, universe_ids, membership_by_real_sid, all_ts,
                   first_G, idx, df_raw, df_flat, ts_sorted, ts_fmt, k>>

\* line 280
WriteRawI ==
    /\ pc = "writeI"
    /\ AppendTo("I", frame(universe_ids[idx], df_raw))
    /\ pc' = "writeG"
    /\ UNCHANGED <<inputs, printed, universe_ids, membership_by_real_sid, all_ts,
                   first_G, idx, df_raw, df_flat, ts_sorted, ts_fmt, k>>

\* the sample write with first_G never cleared
WriteSampleEveryTime ==
    /\ pc = "writeG"
    /\ WriteTo("G", frame(universe_ids[idx], df_raw))
    /\ first_G' = first_G
    /\ idx' = idx + 1
    /\ pc' = "loop"
    /\ UNCHANGED <<inputs, printed, universe_ids, membership_by_real_sid, all_ts,
                   df_raw, df_flat, ts_sorted, ts_fmt, k>>

\* lines 282-284: the raw sample is written while first_G holds
WriteSample ==
    /\ pc = "writeG"
    /\ IF first_G
       THEN WriteTo("G", frame(universe_ids[idx], df_raw)) /\ first_G' = FALSE
       ELSE UNCHANGED <<files, existing, first_G>>
    /\ idx' = idx + 1
    /\ pc' = "loop"
    /\ UNCHANGED <<inputs, printed, universe_ids, membership_by_real_sid, all_ts,
                   df_raw, df_flat, ts_sorted, ts_fmt, k>>

\* the security list written without waiting for the last security
WriteSecurityListEarly ==
    /\ pc = "loop"
    /\ WriteTo("B", [j \in 1..Len(universe_ids) |-> <<universe_ids[j]>>])
    /\ pc' = "writeD"
    /\ UNCHANGED <<inputs, printed, universe_ids, membership_by_real_sid, all_ts,
                   first_G, idx, df_raw, df_flat, ts_sorted, ts_fmt, k>>

\* line 287, after the last security
WriteSecurityList ==
    /\ pc = "loop"
    /\ idx > Len(universe_ids)
    /\ WriteTo("B", [j \in 1..Len(universe_ids) |-> <<universe_ids[j]>>])
    /\ pc' = "writeD"
    /\ UNCHANGED <<inputs, printed, universe_ids, membership_by_real_sid, all_ts,
                   first_G, idx, df_raw, df_flat, ts_sorted, ts_fmt, k>>

\* lines 289-291
WriteTimestampList ==
    /\ pc = "writeD"
    /\ ts_sorted' = Sorted(all_ts)
    /\ ts_fmt' = [j \in 1..Len(ts_sorted') |-> Strftime(ts_sorted'[j])]
    /\ WriteTo("D", [j \in 1..Len(ts_fmt') |-> <<ts_fmt'[j]>>])
    /\ pc' = "openC"
    /\ UNCHANGED <<inputs, printed, universe_ids, membership_by_real_sid, all_ts,
                   first_G, idx, df_raw, df_flat, k>>

\* line 292
OpenMembership ==
    /\ pc = "openC"
    /\ WriteTo("C", <<>>)
    /\ k' = 1
    /\ pc' = "writeC"
    /\ UNCHANGED <<inputs, printed, universe_ids, membership_by_real_sid, all_ts,
                   first_G, idx, df_raw, df_flat, ts_sorted, ts_fmt>>

\* lines 293-298: the membership lines of one timestamp
WriteMembership ==
    /\ pc = "writeC"
    /\ k <= Len(ts_sorted)
    /\ AppendTo("C", MembershipLines(membership_by_real_sid, ts_sorted[k], ts_fmt[k]))
    /\ k' = k + 1
    /\ UNCHANGED <<inputs, printed, pc, universe_ids, membership_by_real_sid, all_ts,
                   first_G, idx, df_raw, df_flat, ts_sorted, ts_fmt>>

\* lines 300-305: one line for each of A, H, I, created or not
Report(f) ==
    IF f \in existing THEN <<"created", f>> ELSE <<"not created", f>>

\* lines 298-307: the file is closed, the report is printed and the run
\* completes
Finish ==
    /\ pc = "writeC"
    /\ k > Len(ts_sorted)
    /\ pc' = "done"
    /\ printed' = printed
          \o <<Report("A"), Report("H"), Report("I"), <<"Export complete">> >>
    /\ UNCHANGED <<inputs, universe_ids, membership_by_real_sid, existing,
                   files, all_ts, first_G, idx, df_raw, df_flat, ts_sorted,
                   ts_fmt, k>>

Next ==
    \/ LoadUniverse
    \/ Cleanup
    \/ ExitNoSecurities
    \/ WriteSubUniverseIds
    \/ WriteSubUniverseMembers
    \/ ReadRaw
    \/ ReadFlat
    \/ RegisterTimestamps
    \/ WriteFlat
    \/ WriteRawH
    \/ WriteRawI
    \/ WriteSample
    \/ WriteSecurityList
    \/ WriteTimestampList
    \/ OpenMembership
    \/ WriteMembership
    \/ Finish

Spec == Init /\ [][Next]_vars

SpecE2E == InitE2E /\ [][Next]_vars

SpecGaps == InitGaps /\ [][Next]_vars

\* the script runs on: a step that can be taken is taken
FairSpecGaps == InitLongGaps /\ [][Next]_vars /\ WF_vars(Next)

TypeOK == pc \in {"start", "cleanup", "check", "exit", "subMembers", "loop",
                  "flat", "register", "writeA", "writeH", "writeI", "writeG",
                  "writeD", "openC", "writeC", "done"}

\* ------------------------------------------------- notions of the claims
\* the securities of the universe, from the membership rows
UniverseSet == {members_df[j].SecurityId : j \in 1..Len(members_df)}

\* s is a member at instant t: some membership row of s holds t, both ends
\* included, a missing end being later than every instant
IsActive(s, t) ==
    \E j \in 1..Len(members_df) :
        /\ members_df[j].SecurityId = s
        /\ members_df[j].EffectiveFromUtc <= t
        /\ (members_df[j].EffectiveToUtc = NaT \/ t <= members_df[j].EffectiveToUtc)

\* the rows of a bar table of security s whose New York minute of day lies
\* in the window of the run's session tag
KeptRows(table, s) ==
    {r \in table :
        /\ r.SecurityId = s
        /\ SessionLo(session) <= MinuteOfDay(r.BarTimeUtc)
        /\ MinuteOfDay(r.BarTimeUtc) <= SessionHi(session)}

KeptRawTs(s) == {r.BarTimeUtc : r \in KeptRows(PriceBar, s)}

\* s is skipped: no raw bar, or no flat bar, is left by the session filter
IsSkipped(s) == KeptRows(PriceBar, s) = {} \/ KeptRows(FlatBar, s) = {}

\* the lines a security's filtered raw series makes, in time order
RawLines(s) ==
    LET bars == SortedByTime({[timestamp |-> r.BarTimeUtc, close |-> r.Close] :
                                 r \in KeptRows(PriceBar, s)})
    IN [j \in 1..Len(bars) |-> <<s, Strftime(bars[j].timestamp), bars[j].close>>]

\* the first security, in processing order, that satisfies P
FirstIn(ids, P(_)) ==
    LET j == CHOOSE i \in 1..Len(ids) :
                 P(ids[i]) /\ \A h \in 1..(i - 1) : ~P(ids[h])
    IN ids[j]

AfterCleanup == pc \notin {"start", "cleanup"}

\* ---------------------------------------------------------------- claims
\* C1: in the step that writes the membership lines of timestamp t, a line
\* (security, t) is written for a security of the universe if and only if
\* some interval of that security holds t, bounds included and a missing
\* end unbounded; every registered timestamp gets exactly one such step.
MembershipRowIffActive ==
    [][/\ (pc = "writeC" /\ k <= Len(ts_sorted)) =>
            LET t == ts_sorted[k]
                written == SubSeq(files'["C"], Len(files["C"]) + 1, Len(files'["C"]))
            IN /\ t \in all_ts
               /\ \A j \in 1..Len(written) :
                     written[j][1] \in UniverseSet /\ written[j][2] = Strftime(t)
               /\ \A s \in UniverseSet :
                     (<<s, Strftime(t)>> \in Range(written)) <=> IsActive(s, t)
       /\ (pc = "writeC" /\ pc' = "done") => Range(ts_sorted) = all_ts
      ]_vars

\* C1 witness: the run is complete, a line was written for a timestamp equal
\* to the end of an interval, and another registered timestamp lies outside
\* every interval of a security
MembershipRowWitness ==
    /\ pc = "done"
    /\ \E j \in 1..Len(members_df) :
          /\ members_df[j].EffectiveToUtc \in all_ts
          /\ <<members_df[j].SecurityId, Strftime(members_df[j].EffectiveToUtc)>>
                \in Range(files["C"])
    /\ \E s \in UniverseSet : \E t \in all_ts :
          ~IsActive(s, t) /\ \A r \in Range(files["C"]) : r # <<s, Strftime(t)>>

\* C2 as stated: a skipped security has no row in A, H, I, G, registers no
\* timestamp, and has no entry in B and no row in C.
SkippedContributesNothing ==
    /\ AfterCleanup =>
          \A s \in UniverseSet : IsSkipped(s) =>
              \A f \in {"A", "H", "I", "G", "B", "C"} :
                  \A j \in 1..Len(files[f]) : files[f][j][1] # s
    /\ all_ts \subseteq UNION {KeptRawTs(u) : u \in {x \in UniverseSet : ~IsSkipped(x)}}

\* C2 amended: a skipped security has no row in A, H, I or G and registers
\* no timestamp (the registered timestamps are raw timestamps of securities
\* that are not skipped); it is still listed in B, and C still holds its
\* line for every registered timestamp inside its intervals.
SkippedWritesNoBars ==
    /\ AfterCleanup =>
          \A s \in UniverseSet : IsSkipped(s) =>
              \A f \in {"A", "H", "I", "G"} :
                  \A j \in 1..Len(files[f]) : files[f][j][1] # s
    /\ all_ts \subseteq UNION {KeptRawTs(u) : u \in {x \in UniverseSet : ~IsSkipped(x)}}
    /\ pc = "done" =>
          \A s \in UniverseSet : IsSkipped(s) =>
              /\ <<s>> \in Range(files["B"])
              /\ \A t \in all_ts :
                    IsActive(s, t) => <<s, Strftime(t)>> \in Range(files["C"])

\* C2 witness: a complete run in which a security with raw bars but no flat
\* bars was skipped, and B and C hold lines of it
SkippedWitness ==
    /\ pc = "done"
    /\ \E s \in UniverseSet :
          /\ KeptRows(PriceBar, s) # {}
          /\ KeptRows(FlatBar, s) = {}
          /\ <<s>> \in Range(files["B"])
          /\ \E r \in Range(files["C"]) : r[1] = s

\* C3 as stated: G holds the raw series of the first security, in processing
\* order, whose filtered raw series is not empty, and a complete run with
\* such a security has written G.
SampleOfFirstRaw ==
    LET HasRaw(s) == KeptRows(PriceBar, s) # {}
    IN /\ (AfterCleanup /\ "G" \in existing) =>
             files["G"] = RawLines(FirstIn(universe_ids, HasRaw))
       /\ (pc = "done" /\ \E s \in UniverseSet : HasRaw(s)) => "G" \in existing

\* C3 amended: G is written at most once per run, with the raw series of the
\* first security in processing order that is not skipped (filtered raw and
\* filtered flat series both non-empty); no later security changes it, and
\* a run in which every security is skipped does not write G.
SampleOfFirstProcessed ==
    LET Processed(s) == ~IsSkipped(s)
    IN /\ (AfterCleanup /\ "G" \in existing) =>
             /\ \E s \in UniverseSet : Processed(s)
             /\ files["G"] = RawLines(FirstIn(universe_ids, Processed))
       /\ pc = "done" =>
             ("G" \in existing <=> \E s \in UniverseSet : Processed(s))

\* C3 witness: a complete run with two securities that both have data
SampleWitness ==
    /\ pc = "done"
    /\ Len(universe_ids) = 2
    /\ \A s \in UniverseSet : ~IsSkipped(s)
    /\ "G" \in existing

\* C4: with an empty universe the script never gets past the universe
\* check: it exits, no output file is created or written (a file that
\* exists is one an earlier run left, untouched), and no security is
\* processed.
EmptyUniverseWritesNothing ==
    members_df = <<>> =>
        /\ pc \in {"start", "cleanup", "check", "exit"}
        /\ (pc \in {"check", "exit"} => existing = {})
        /\ \A f \in FileNames :
              files[f] = IF f \in existing THEN <<StaleRow>> ELSE <<>>
        /\ all_ts = {} /\ idx = 1 /\ df_raw = <<>> /\ df_flat = <<>>

\* C4 witness: the run has exited on an empty universe
EmptyUniverseWitness == members_df = <<>> /\ pc = "exit"

\* C5 as stated: no two lines of the membership file are equal.
MembershipLinesDistinct ==
    pc \in {"writeC", "done"} =>
        \A i, j \in 1..Len(files["C"]) :
            i # j => files["C"][i] # files["C"][j]

\* two membership rows of one security whose intervals share an instant
HasOverlap ==
    \E i, j \in 1..Len(members_df) :
        /\ i < j
        /\ members_df[i].SecurityId = members_df[j].SecurityId
        /\ members_df[i].EffectiveFromUtc <= ResolveEnd(members_df[j].EffectiveToUtc)
        /\ members_df[j].EffectiveFromUtc <= ResolveEnd(members_df[i].EffectiveToUtc)

\* C6 as stated: overlapping intervals of one security are rejected; the
\* run does not go on to use them.
OverlapRejected == HasOverlap => pc \in {"start", "exit"}

\* C7: every registered timestamp has a New York minute of day inside the
\* window of the run's session tag, bounds included, at every point of the
\* run.
RegisteredInSession ==
    \A t \in all_ts :
        /\ SessionLo(session) <= MinuteOfDay(t)
        /\ MinuteOfDay(t) <= SessionHi(session)

\* C7 witness: a timestamp on the last minute of the window is registered
\* while the same security has a bar past the window
RegisteredInSessionWitness ==
    \E r1, r2 \in PriceBar :
        /\ r1.SecurityId = r2.SecurityId
        /\ r1.BarTimeUtc \in all_ts
        /\ MinuteOfDay(r1.BarTimeUtc) = SessionHi(session)
        /\ MinuteOfDay(r2.BarTimeUtc) > SessionHi(session)

\* the instants of all raw bars the table holds for the security being read
OfferedTs == {r.BarTimeUtc : r \in {x \in PriceBar : x.SecurityId = universe_ids[idx]}}

\* C8 as stated: "ALL" is the window 00:00-23:59, so the filter keeps every
\* bar of the security, whatever its local minute of day.
AllKeepsEveryBar ==
    (session = "ALL" /\ pc = "flat") => Index(df_raw) = OfferedTs

\* C8 amended: "ALL" is the window 02:00-15:59 New York time, bounds
\* included: filtering with "ALL" keeps exactly the bars whose local minute
\* of day lies in that window and drops the others.
AllKeepsSessionHours ==
    (session = "ALL" /\ pc = "flat") =>
        Index(df_raw) = {t \in OfferedTs :
                            2 * 60 <= MinuteOfDay(t) /\ MinuteOfDay(t) <= 15 * 60 + 59}

\* C8 witness: under "ALL" a bar on an edge minute of the window is kept
\* and a bar outside the window is dropped
AllWitness ==
    /\ session = "ALL"
    /\ pc = "flat"
    /\ \E t \in Index(df_raw) : MinuteOfDay(t) \in {2 * 60, 15 * 60 + 59}
    /\ OfferedTs \ Index(df_raw) # {}

\* C10 as stated: D has one line per registered timestamp and its lines are
\* strictly ascending.
TimestampListStrictlyAscending ==
    pc \in {"openC", "writeC", "done"} =>
        /\ Len(files["D"]) = Cardinality(all_ts)
        /\ \A j \in 1..(Len(files["D"]) - 1) :
              StrLess(files["D"][j][1], files["D"][j + 1][1])

\* the scenario of C9: a universe of securities 1 and 2, security 1 with raw
\* and flat bars at 09:00, 10:00 and 11:00 New York time on each of 3 days,
\* security 2 with no bars, session "US"
Scenario ==
    /\ session = "US"
    /\ members_df = <<ScenarioMember(1), ScenarioMember(2)>>
    /\ PriceBar = HourlyRows(1, {9, 10, 11}, 100)
    /\ FlatBar = HourlyRows(1, {9, 10, 11}, 200)

LinesOf(f, s) == {j \in 1..Len(files[f]) : files[f][j][1] = s}

\* C9 as stated: the scenario run does not abort and ends with 2 entries in
\* B, 9 lines of security 1 and none of security 2 in A, and 9 distinct
\* lines in D.
ScenarioNineRows ==
    Scenario =>
        /\ pc # "exit"
        /\ pc = "done" =>
              /\ Len(files["B"]) = 2
              /\ Cardinality(LinesOf("A", 1)) = 9
              /\ Cardinality(LinesOf("A", 2)) = 0
              /\ Len(files["D"]) = 9
              /\ Cardinality(Range(files["D"])) = 9

\* C9 amended: the scenario run does not abort and ends with 2 entries in
\* B, 6 lines of security 1 (the 10:00 and 11:00 bars of the 3 days; the
\* 09:00 bars lie before the "US" window, which opens at 09:30) and none of
\* security 2 in A, and 6 distinct lines in D.
ScenarioSixRows ==
    Scenario =>
        /\ pc # "exit"
        /\ pc = "done" =>
              /\ Len(files["B"]) = 2
              /\ Cardinality(LinesOf("A", 1)) = 6
              /\ Cardinality(LinesOf("A", 2)) = 0
              /\ Len(files["D"]) = 6
              /\ Cardinality(Range(files["D"])) = 6
              /\ \A j \in 1..Len(files["D"]) : files["D"][j][1][2] \in {10, 11}

\* C9 witness: the scenario run is complete
ScenarioWitness == Scenario /\ pc = "done"

\* the last n lines of a file
LastLines(f, n) == SubSeq(files[f], Len(files[f]) - n + 1, Len(files[f]))

\* C11 as stated: H and I hold the same lines at every point of the run.
RawFilesIdentical == files["H"] = files["I"]

\* C11 amended: H and I hold the same lines at every point of the run
\* except between the two consecutive appends of one security's raw rows
\* (H is written first): there H is I followed by that security's rows.
\* The step that writes G writes exactly the lines just appended to H and
\* to I for that security.
RawFilesIdenticalAfterBothWrites ==
    [][/\ AfterCleanup' =>
            IF pc' = "writeI"
            THEN files'["H"] = files'["I"] \o frame(universe_ids'[idx'], df_raw')
            ELSE files'["H"] = files'["I"]
       /\ (pc = "writeG" /\ files'["G"] # files["G"]) =>
            /\ files'["G"] = LastLines("H", Len(df_raw))
            /\ files'["G"] = LastLines("I", Len(df_raw))
            /\ \A j \in 1..Len(files'["G"]) : files'["G"][j][1] = universe_ids[idx]
      ]_vars

\* C11 witness: G is written and H and I hold the rows of two securities
RawFilesWitness ==
    /\ pc = "loop"
    /\ "G" \in existing
    /\ files["H"] = files["I"]
    /\ \E i, j \in 1..Len(files["H"]) : files["H"][i][1] # files["H"][j][1]

\* C13: no row of an earlier run survives: up to the cleanup nothing is
\* written (a file holds what the earlier run left), and from the cleanup
\* on no file holds a row of the earlier run and a file that was not
\* written by this run does not exist.
NoStaleRows ==
    \A f \in FileNames :
        IF AfterCleanup
        THEN /\ \A j \in 1..Len(files[f]) : files[f][j] # StaleRow
             /\ f \notin existing => files[f] = <<>>
        ELSE files[f] = IF f \in existing THEN <<StaleRow>> ELSE <<>>

\* C13 witness: a complete run whose appended files A, H and I, its sample
\* G and its aggregate files hold rows
NoStaleRowsWitness ==
    /\ pc = "done"
    /\ existing = FileNames
    /\ \A f \in FileNames : files[f] # <<>>

\* the securities of ids, in the order of ids, that are members at instant t
RECURSIVE ActiveIn(_, _)
ActiveIn(ids, t) ==
    IF ids = <<>> THEN <<>>
    ELSE (IF IsActive(Head(ids), t) THEN <<Head(ids)>> ELSE <<>>)
            \o ActiveIn(Tail(ids), t)

\* the membership lines of the first n sorted timestamps: timestamp after
\* timestamp, and for each timestamp its member securities in the order in
\* which the membership query first names them
RECURSIVE LinesUpTo(_)
LinesUpTo(n) ==
    IF n = 0 THEN <<>>
    ELSE LET act == ActiveIn(universe_ids, ts_sorted[n])
         IN LinesUpTo(n - 1)
              \o [j \in 1..Len(act) |-> <<act[j], Strftime(ts_sorted[n])>>]

\* C14 as stated: the lines of C never go back in their timestamp, and lines
\* of one timestamp never go back in their security identifier.
MembershipOrderedBySecurityId ==
    AfterCleanup =>
        \A i, j \in 1..Len(files["C"]) :
            i < j =>
                /\ ~StrLess(files["C"][j][2], files["C"][i][2])
                /\ files["C"][i][2] = files["C"][j][2]
                      => files["C"][i][1] <= files["C"][j][1]

\* C14 amended: while C is written and when the run is done, C holds the
\* lines of the instants handled so far, instant after instant in strictly
\* ascending order of the instants, and for each instant its member
\* securities in the order in which the membership query first names them.
MembershipOrderedByFirstAppearance ==
    pc \in {"writeC", "done"} =>
        /\ \A i, j \in 1..Len(ts_sorted) : i < j => ts_sorted[i] < ts_sorted[j]
        /\ files["C"] = LinesUpTo(k - 1)

\* C14 witness: a complete run with lines of two instants, the first of them
\* with security 2 before security 1
MembershipOrderWitness ==
    /\ pc = "done"
    /\ Len(ts_sorted) >= 2
    /\ Len(files["C"]) >= 3
    /\ files["C"][1][1] = 2
    /\ files["C"][2][1] = 1
    /\ files["C"][1][2] = files["C"][2][2]

\* the positions of the script inside the loop over the securities
LoopPcs == {"loop", "flat", "register", "writeA", "writeH", "writeI", "writeG"}

\* a step writes file f: its lines change or it comes to exist
Writes(f) == files'[f] # files[f] \/ (f \in existing' /\ f \notin existing)

\* C15 as stated: before the loop over the securities and while it runs,
\* none of the security list B, the timestamp list D, the membership rows C
\* and the sub-universe roster E, F has been written.
AggregatesOnlyAfterLoop ==
    (pc \in {"check", "subMembers"}
        \/ (pc \in LoopPcs /\ ~(pc = "loop" /\ idx > Len(universe_ids))))
    => existing \cap {"B", "C", "D", "E", "F"} = {}

\* C15 amended: after the cleanup, B and D are each written by one step,
\* to a file that does not exist yet, after the last security; C is opened
\* by one step after the last security and then only extended; the roster
\* E and F is written by one step each before the first security is read;
\* inside the loop the roster exists and B, C, D do not; a complete run
\* leaves all five.
AggregatesWrittenOnce ==
    [][/\ AfterCleanup =>
            /\ Writes("E") => pc = "check" /\ "E" \notin existing
            /\ Writes("F") => pc = "subMembers" /\ "F" \notin existing
            /\ Writes("B") => /\ pc = "loop" /\ idx > Len(universe_ids)
                              /\ "B" \notin existing
            /\ Writes("D") => /\ pc = "writeD" /\ idx > Len(universe_ids)
                              /\ "D" \notin existing
            /\ Writes("C") =>
                  /\ idx > Len(universe_ids)
                  /\ \/ pc = "openC" /\ "C" \notin existing
                     \/ /\ pc = "writeC"
                        /\ SubSeq(files'["C"], 1, Len(files["C"])) = files["C"]
       /\ pc' \in LoopPcs =>
            /\ {"E", "F"} \subseteq existing'
            /\ (files'["E"] # <<>> /\ Len(files'["F"]) = Len(universe_ids'))
            /\ ~(pc' = "loop" /\ idx' > Len(universe_ids'))
                  => existing' \cap {"B", "C", "D"} = {}
       /\ pc' = "done" => {"B", "C", "D", "E", "F"} \subseteq existing'
      ]_vars

\* C15 witness: a complete run over two securities, one of them processed,
\* with the five files written
AggregatesWitness ==
    /\ pc = "done"
    /\ Len(files["B"]) = 2
    /\ ~first_G
    /\ files["D"] # <<>>
    /\ files["C"] # <<>>
    /\ files["E"] # <<>>
    /\ files["F"] # <<>>

\* the filtered raw timestamps of the securities among the first n of the
\* universe that are not skipped
RegisteredBy(n) ==
    UNION {KeptRawTs(universe_ids[j]) :
              j \in {i \in 1..n : i <= Len(universe_ids) /\ ~IsSkipped(universe_ids[i])}}

\* the number of securities whose timestamps the loop has registered or
\* passed over
Handled ==
    IF pc \in {"start", "cleanup", "check", "exit", "subMembers"} THEN 0
    ELSE IF pc \in {"loop", "flat", "register"} THEN idx - 1
    ELSE IF pc \in {"writeA", "writeH", "writeI", "writeG"} THEN idx
    ELSE Len(universe_ids)

\* C16: no step takes a timestamp out of all_ts, and after every step all_ts
\* is exactly the union of the filtered raw timestamps of the securities
\* handled so far that were not skipped: every element is the instant of a
\* raw bar, and a security without filtered raw bars adds nothing.
AllTsIsUnionOfRaw ==
    [][/\ all_ts \subseteq all_ts'
       /\ all_ts' = RegisteredBy(Handled')
       /\ \A t \in all_ts' : \E r \in PriceBar' : r.BarTimeUtc = t
       /\ (pc = "loop" /\ idx <= Len(universe_ids)
             /\ KeptRawTs(universe_ids[idx]) = {})
            => /\ pc' = "loop" /\ idx' = idx + 1
               /\ all_ts' = all_ts
      ]_vars

\* C16 witness: after the last security, all_ts holds a raw timestamp of a
\* processed security; a flat bar of that security in the session window has
\* a timestamp that is not registered, and a skipped security has a filtered
\* raw timestamp that is not registered
AllTsWitness ==
    /\ pc = "writeD"
    /\ all_ts # {}
    /\ \E s \in UniverseSet :
          /\ ~IsSkipped(s)
          /\ \E r \in KeptRows(FlatBar, s) : r.BarTimeUtc \notin all_ts
    /\ \E s \in UniverseSet :
          /\ IsSkipped(s)
          /\ KeptRawTs(s) # {}
          /\ KeptRawTs(s) \cap all_ts = {}

\* the New York calendar days of the timestamps of a frame, ascending
CalendarDays(df) == Sorted({DtDay(df[j].timestamp) : j \in 1..Len(df)})

\* the reports the claim expects for a frame: one for each pair of
\* consecutive distinct calendar days more than limit_days days apart
ExpectedGaps(df, limit_days) ==
    LET days == CalendarDays(df)
        all == [i \in 1..(Len(days) - 1) |->
                   <<"gap", days[i], days[i + 1], days[i + 1] - days[i]>>]
        IsGap(w) == w[4] > limit_days
    IN IF days = <<>> THEN <<>> ELSE SelectSeq(all, IsGap)

\* the warnings among the lines a step prints
PrintedGaps ==
    LET new == SubSeq(printed', Len(printed) + 1, Len(printed'))
        IsGapLine(w) == w[1] = "gap"
    IN SelectSeq(new, IsGapLine)

\* the days 2024-01-01, 2024-01-02, 2024-01-10, at 10:00 New York time
ExampleDays == <<Utc(-306, 600, 0), Utc(-305, 600, 0), Utc(-297, 600, 0)>>

\* C12: the step that reads a security's raw bars prints one warning for
\* each pair of consecutive distinct calendar days of the filtered bars that
\* lie more than 5 days apart, with the earlier day, the later day and the
\* number of days between them, and no other warning; the days 2024-01-01,
\* 2024-01-02, 2024-01-10 with limit 5 give the one warning
\* (2024-01-02, 2024-01-10, 8).
GapsReportedIffOverThreshold ==
    [][/\ (pc = "loop" /\ pc' \in {"loop", "flat"})
             => PrintedGaps = ExpectedGaps(df_raw', 5)
       /\ check_long_gaps(ExampleDays, 5) = << <<"gap", -305, -297, 8>> >>
      ]_vars

\* the securities of the "visit" lines printed so far, in order
Visited ==
    LET IsVisit(w) == w[1] = "visit"
        v == SelectSeq(printed, IsVisit)
    IN [j \in 1..Len(v) |-> v[j][2]]

\* the run is complete: every security was visited once, in the order of
\* the universe, B, D and C are written and the last line is printed
Completed ==
    /\ pc = "done"
    /\ Visited = universe_ids
    /\ {"B", "C", "D"} \subseteq existing
    /\ files["B"] = [j \in 1..Len(universe_ids) |-> <<universe_ids[j]>>]
    /\ printed[Len(printed)] = <<"Export complete">>

\* C17: a run over a universe that is not empty comes to its end, with
\* every security visited once in the order of the universe and B, D and C
\* written, whatever securities are skipped and whatever gaps are printed;
\* on the way the visited securities are the first securities of the
\* universe, each once, and the run exits early only for an empty universe.
RunCompletes ==
    /\ [](pc = "exit" => members_df = <<>>)
    /\ [](AfterCleanup =>
            /\ Len(Visited) <= Len(universe_ids)
            /\ Visited = SubSeq(universe_ids, 1, Len(Visited))
            /\ pc \in LoopPcs => Len(Visited) \in {idx - 1, idx})
    /\ (members_df # <<>>) ~> Completed

\* C17 witness: a complete run in which a security with a printed gap and a
\* skipped security were each followed by the visit of a later security
RunCompletesWitness ==
    /\ Completed
    /\ \E h, i, j \in 1..Len(printed) :
          /\ h < i /\ i < j
          /\ printed[h][1] \in {"gap", "skip"}
          /\ printed[i][1] = "visit"
          /\ printed[j][1] \in {"gap", "skip"}
          /\ printed[j][1] # printed[h][1]

====
